---- MODULE Spec2Model ----
(***************************************************************************)
(* The four Dropbox command-line scripts as one state machine.  A run is   *)
(* one execution of one script (variable script) against a backend whose   *)
(* answers are fixed at the start of the run (pages for the two paginated  *)
(* listings, kind/match for the folder tree that files_search looks into). *)
(*                                                                         *)
(*   export    dbox_user_file_export.py                                    *)
(*   members   dropbox_members_listv2.py                                   *)
(*   account   dbox_search_account.py                                      *)
(*   list_ids  dbox_search_list_ids.py                                     *)
(***************************************************************************)
EXTENDS Integers, Sequences, FiniteSets, TLC

\* ------------------------------------------------------------------ bounds
MaxPages == 2
MaxPageLen == 2
MaxCalls == 3
MaxNodes == 3
MaxUsers == 2

\* ------------------------------------------------------ program constants
\* make_request(url, headers, payload, retries=3, timeout=10)
Retries == 3

Scripts == {"export", "members", "account", "list_ids"}
PagedScripts == {"export", "members"}
SearchScripts == {"account", "list_ids"}
Dbmids == {"u1", "u2"}

\* ---------------------------------------------------------------- values
\* A cursor value as the scripts see it: a real cursor (pos = the page it
\* was returned with), the empty string, or no cursor at all (the key is
\* missing from the response; None in get_members).
Cur(k) == [tag |-> "cursor", pos |-> k]
EmptyCur == [tag |-> "empty", pos |-> 0]
NoCur == [tag |-> "none", pos |-> 0]

NoError == [kind |-> "none", attempt |-> 0]
NoResponse == [attempt |-> 0, json |-> FALSE, page |-> 0, entries |-> <<>>,
               has_more |-> "absent", cursor |-> NoCur]
NoData == [page |-> 0, entries |-> <<>>, has_more |-> "absent", cursor |-> NoCur]

\* An output file: "previous" is the file a former run left (or no file),
\* "open" is opened with mode 'w' (truncated, header row written where the
\* script writes one), "closed" is written and closed.  rows are the data
\* rows written in this run.
PrevFile == [state |-> "previous", rows |-> <<>>]

VARIABLES
    script,       \* which script runs
    tokenExists,  \* whether the token file can be opened
    pages,        \* the backend's pages of the listing, in order
    kind,         \* folder tree: node -> "file" | "folder" | "none"
    match,        \* folder tree: node -> whether the query matches it
    dbmid_list,   \* list_ids: the ids read from the csv; account: <<selected_user>>
    pc,           \* position in the script
    exitStatus,   \* -1 while running, else the process's exit status
    reported,     \* an error message was printed by the script
    raised,       \* the exception that left the script uncaught
    requests,     \* logical requests issued: cursor sent, page answered (0: none yet)
    callLog,      \* outcomes of the attempts of the current make_request call
    i,            \* make_request's loop variable
    response,     \* what the last request returned
    data,         \* export: the last decoded response
    acc,          \* entries (export) / all_members (members)
    cursor,       \* members: local cursor
    has_more,     \* members: local has_more
    jsonFile,     \* ~/Desktop/merged_data.json
    csvFile,      \* the script's csv output file
    header,       \* dbx._session.headers['Dropbox-API-Select-User']
    uidx,         \* list_ids: index in dbmid_list of the user being processed
    stack,        \* activations of search_files_recursively, top last
    searchLog     \* files_search requests made: user index, header sent, folder

env == <<script, tokenExists, pages, kind, match, dbmid_list>>
ctl == <<pc, exitStatus, reported, raised>>
pag == <<requests, callLog, i, response, data, acc, cursor, has_more>>
out == <<jsonFile, csvFile>>
srch == <<header, uidx, stack, searchLog>>
vars == <<env, ctl, pag, out, srch>>

\* ----------------------------------------------------------- the backend
CursorTags == {"valid", "empty", "absent"}
HasMoreLast == {"false", "absent"}

\* Every page but the last says has_more true; the last says false or leaves
\* the field out.  Each page carries a cursor, an empty one, or none.
PageSeqs ==
    UNION { { p \in [1..n -> [n : 0..MaxPageLen, has_more : {"true", "false", "absent"},
                              cursor : CursorTags]] :
                  /\ \A k \in 1..(n-1) : p[k].has_more = "true"
                  /\ p[n].has_more \in HasMoreLast }
            : n \in 1..MaxPages }

\* The records of page k: distinct across the whole listing.
Records(k) == [j \in 1..pages[k].n |-> <<k, j>>]

PageBody(k) ==
    [page |-> k, entries |-> Records(k), has_more |-> pages[k].has_more,
     cursor |-> CASE pages[k].cursor = "valid" -> Cur(k)
                  [] pages[k].cursor = "empty" -> EmptyCur
                  [] OTHER -> NoCur]

\* The backend's answer to a request: the first page for the initial request
\* (no cursor), the page after the cursor's for a continuation, and an empty
\* final page once the listing is exhausted.
Respond(c) ==
    IF c.tag = "none" THEN PageBody(1)
    ELSE IF c.pos < Len(pages) THEN PageBody(c.pos + 1)
    ELSE [page |-> 0, entries |-> <<>>, has_more |-> "false", cursor |-> c]

\* What a request can meet: a good answer, an answer that is no JSON, a
\* network failure (ConnectionError, Timeout), an HTTP error status.  A
\* continuation with an empty cursor is rejected by the backend.
Outcomes(c) ==
    IF c.tag = "empty" THEN {"netfail", "httperr"}
    ELSE {"ok", "badjson", "netfail", "httperr"}

\* ------------------------------------------------------------ the tree
Nodes == 1..MaxNodes
Root == 0
Parent(n) == (n - 1) \div 2

RECURSIVE Under(_, _)
\* node n lies (strictly) under folder p
Under(n, p) == IF n = Root THEN FALSE
               ELSE Parent(n) = p \/ Under(Parent(n), p)

Trees ==
    { t \in [Nodes -> [kind : {"file", "folder", "none"}, match : BOOLEAN]] :
        \A n \in Nodes :
            /\ t[n].kind # "none" =>
                   (Parent(n) = Root \/ t[Parent(n)].kind = "folder")
            /\ t[n].kind = "none" => ~t[n].match }

RECURSIVE Ascending(_)
Ascending(S) == IF S = {} THEN <<>>
                ELSE LET m == CHOOSE x \in S : \A y \in S : x <= y
                     IN  <<m>> \o Ascending(S \ {m})

\* dbx.files_search(folder_path, search_query).matches: the files and folders
\* under folder_path, at any depth, that match the query.
Matches(p) == Ascending({n \in Nodes : kind[n] # "none" /\ match[n] /\ Under(n, p)})

UserLists == UNION { [1..n -> Dbmids] : n \in 0..MaxUsers }

\* ------------------------------------------------------------------ Init
Init ==
    /\ script \in Scripts
    /\ tokenExists \in BOOLEAN
    /\ IF script \in PagedScripts
         THEN /\ pages \in PageSeqs
              /\ kind = [n \in Nodes |-> "none"]
              /\ match = [n \in Nodes |-> FALSE]
              /\ dbmid_list = <<>>
         ELSE /\ pages = <<>>
              /\ \E t \in Trees : /\ kind = [n \in Nodes |-> t[n].kind]
                                  /\ match = [n \in Nodes |-> t[n].match]
              /\ IF script = "account"
                   THEN \E u \in Dbmids : dbmid_list = <<u>>
                   ELSE dbmid_list \in UserLists
    /\ pc = "start"
    /\ exitStatus = -1
    /\ reported = FALSE
    /\ raised = NoError
    /\ requests = <<>>
    /\ callLog = <<>>
    /\ i = 0
    /\ response = NoResponse
    /\ data = NoData
    /\ acc = <<>>
    /\ cursor = NoCur
    /\ has_more = TRUE
    /\ jsonFile = PrevFile
    /\ csvFile = PrevFile
    /\ header = ""
    /\ uidx = 0
    /\ stack = <<>>
    /\ searchLog = <<>>

\* ------------------------------------------------- helpers of the scripts
Exit(status) ==
    /\ pc' = "exited"
    /\ exitStatus' = status

\* An exception nothing catches: the interpreter prints the traceback and
\* the process ends with status 1.
Crash(err) ==
    /\ raised' = err
    /\ Exit(1)

\* data.get('has_more', False) / result.get('has_more', False)
GetHasMore_DefaultTrue(hm) == hm # "false"
GetHasMore(hm) == hm = "true"

\* entries.extend(...) / all_members.extend(members)
Extend_Prepend(a, recs) == recs \o a
Extend(a, recs) == a \o recs

\* except requests.exceptions.RequestException: network failures, and the
\* HTTPError that raise_for_status() raises for a bad status code.
Caught_OnlyNetwork(o) == o = "netfail"
Caught(o) == o \in {"netfail", "httperr"}

\* if i < retries - 1: sleep and go round again, else: raise
RetryAllowed_GiveUpEarly(n) == n < Retries - 2
RetryAllowed(n) == n < Retries - 1

\* the bare raise in the except block re-raises the exception being handled,
\* that of the attempt that has just failed
RaisedError_First(log) == [kind |-> log[1], attempt |-> 1]
RaisedError(log) == [kind |-> log[Len(log)], attempt |-> Len(log)]

\* get_members: if cursor: data["cursor"] = cursor.  None and "" are falsy,
\* so the request then carries no cursor: it is the initial request.
RequestCursor(c) == IF c.tag = "cursor" THEN c ELSE NoCur

NewRequest(c) == Append(requests, [cursor |-> c, page |-> 0])
Answered(k) == [requests EXCEPT ![Len(requests)].page = k]
LastRequest == requests[Len(requests)]

\* ---------------------------------------------- dbox_user_file_export.py
\* Lines 35-82: read the token (exit(1) when the file is missing), build the
\* request and enter make_request(url, headers, payload).
ExportReadToken ==
    /\ script = "export"
    /\ pc = "start"
    /\ IF tokenExists
         THEN /\ requests' = NewRequest(NoCur)
              /\ callLog' = <<>>
              /\ i' = 0
              /\ pc' = "make_request"
              /\ UNCHANGED <<exitStatus, reported>>
         ELSE /\ reported' = TRUE
              /\ Exit(1)
              /\ UNCHANGED <<requests, callLog, i>>
    /\ UNCHANGED <<env, raised, response, data, acc, cursor, has_more, out, srch>>

\* One round of make_request's for loop: post, raise_for_status, return the
\* response; on a RequestException print, then sleep and retry, or re-raise
\* on the last round.
ExportAttempt ==
    /\ script = "export"
    /\ pc = "make_request"
    /\ i < Retries
    /\ \E o \in Outcomes(LastRequest.cursor) :
         /\ callLog' = Append(callLog, o)
         /\ IF o \in {"ok", "badjson"}
              THEN /\ response' =
                        IF o = "ok"
                          THEN LET b == Respond(LastRequest.cursor)
                               IN  [attempt |-> i + 1, json |-> TRUE, page |-> b.page,
                                    entries |-> b.entries, has_more |-> b.has_more,
                                    cursor |-> b.cursor]
                          ELSE [NoResponse EXCEPT !.attempt = i + 1]
                   /\ pc' = IF Len(requests) = 1 THEN "first_response" ELSE "cont_response"
                   /\ UNCHANGED <<i, exitStatus, raised>>
              ELSE IF Caught(o) /\ RetryAllowed(i)
                     THEN /\ i' = i + 1
                          /\ UNCHANGED <<pc, exitStatus, raised, response>>
                     ELSE /\ Crash(RaisedError(callLog'))
                          /\ UNCHANGED <<i, response>>
    /\ UNCHANGED <<env, reported, requests, data, acc, cursor, has_more, out, srch>>

\* Lines 84-91: decode the first response (exit(1) when it is no JSON) and
\* take its entries.
ExportFirstResponse ==
    /\ script = "export"
    /\ pc = "first_response"
    /\ IF response.json
         THEN /\ data' = [page |-> response.page, entries |-> response.entries,
                          has_more |-> response.has_more, cursor |-> response.cursor]
              /\ acc' = response.entries
              /\ requests' = Answered(response.page)
              /\ pc' = "while"
              /\ UNCHANGED <<exitStatus, reported>>
         ELSE /\ reported' = TRUE
              /\ Exit(1)
              /\ UNCHANGED <<data, acc, requests>>
    /\ UNCHANGED <<env, raised, callLog, i, response, cursor, has_more, out, srch>>

\* Lines 93-97: the while test; in the loop, read data['cursor'] (KeyError
\* when the key is missing) and enter make_request(continue_url, ...).
ExportWhile ==
    /\ script = "export"
    /\ pc = "while"
    /\ IF GetHasMore(data.has_more)
         THEN IF data.cursor.tag = "none"
                THEN /\ Crash([kind |-> "KeyError", attempt |-> 0])
                     /\ UNCHANGED <<requests, callLog, i>>
                ELSE /\ requests' = NewRequest(data.cursor)
                     /\ callLog' = <<>>
                     /\ i' = 0
                     /\ pc' = "make_request"
                     /\ UNCHANGED <<exitStatus, raised>>
         ELSE /\ pc' = "write_json"
              /\ UNCHANGED <<exitStatus, raised, requests, callLog, i>>
    /\ UNCHANGED <<env, reported, response, data, acc, cursor, has_more, out, srch>>

\* Lines 99-106: decode a continuation response and extend entries.
ExportContResponse ==
    /\ script = "export"
    /\ pc = "cont_response"
    /\ IF response.json
         THEN /\ data' = [page |-> response.page, entries |-> response.entries,
                          has_more |-> response.has_more, cursor |-> response.cursor]
              /\ acc' = Extend(acc, response.entries)
              /\ requests' = Answered(response.page)
              /\ pc' = "while"
              /\ UNCHANGED <<exitStatus, reported>>
         ELSE /\ reported' = TRUE
              /\ Exit(1)
              /\ UNCHANGED <<data, acc, requests>>
    /\ UNCHANGED <<env, raised, callLog, i, response, cursor, has_more, out, srch>>

\* Lines 108-111: json.dump(entries, file).
ExportWriteJson_Incremental ==
    /\ script = "export"
    /\ pc \in {"while", "write_json"}
    /\ jsonFile' = [state |-> "closed", rows |-> acc]
    /\ pc' = IF pc = "write_json" THEN "write_csv" ELSE pc
    /\ UNCHANGED <<env, exitStatus, reported, raised, pag, csvFile, srch>>
ExportWriteJson ==
    /\ script = "export"
    /\ pc = "write_json"
    /\ jsonFile' = [state |-> "closed", rows |-> acc]
    /\ pc' = "write_csv"
    /\ UNCHANGED <<env, exitStatus, reported, raised, pag, csvFile, srch>>

\* Lines 113-129: the header row and one row per entry.
ExportWriteCsv ==
    /\ script = "export"
    /\ pc = "write_csv"
    /\ csvFile' = [state |-> "closed", rows |-> acc]
    /\ Exit(0)
    /\ UNCHANGED <<env, reported, raised, pag, jsonFile, srch>>

\* --------------------------------------------- dropbox_members_listv2.py
\* main, lines 103-118: read the token; when the file is missing print the
\* error and return.
MembersReadToken ==
    /\ script = "members"
    /\ pc = "start"
    /\ IF tokenExists
         THEN /\ acc' = <<>>
              /\ cursor' = NoCur
              /\ has_more' = TRUE
              /\ pc' = "loop"
              /\ UNCHANGED <<exitStatus, reported>>
         ELSE /\ reported' = TRUE
              /\ Exit(0)
              /\ UNCHANGED <<acc, cursor, has_more>>
    /\ UNCHANGED <<env, raised, requests, callLog, i, response, data, out, srch>>

\* main, lines 120-122, with get_members (lines 43-67): one round of the
\* while loop, or leaving it.  get_members posts once; a network failure, a
\* status other than 200 and a body that is no JSON all raise to main, which
\* catches nothing.
MembersLoop ==
    /\ script = "members"
    /\ pc = "loop"
    /\ IF has_more
         THEN /\ Len(requests) < MaxCalls
              /\ LET c == RequestCursor(cursor) IN
                 \E o \in Outcomes(c) :
                   /\ callLog' = <<o>>
                   /\ IF o = "ok"
                        THEN LET b == Respond(c) IN
                             /\ requests' = Append(requests, [cursor |-> c, page |-> b.page])
                             /\ response' = [attempt |-> 1, json |-> TRUE, page |-> b.page,
                                             entries |-> b.entries, has_more |-> b.has_more,
                                             cursor |-> b.cursor]
                             /\ cursor' = b.cursor
                             /\ has_more' = GetHasMore(b.has_more)
                             /\ acc' = Extend(acc, b.entries)
                             /\ UNCHANGED <<pc, exitStatus, raised>>
                        ELSE /\ requests' = NewRequest(c)
                             /\ Crash([kind |-> o, attempt |-> 1])
                             /\ UNCHANGED <<response, cursor, has_more, acc>>
         ELSE /\ pc' = "export"
              /\ UNCHANGED <<exitStatus, raised, requests, callLog, response, cursor,
                             has_more, acc>>
    /\ UNCHANGED <<env, reported, i, data, out, srch>>

\* main, lines 124-125, with export_to_csv (lines 77-96).
MembersExport ==
    /\ script = "members"
    /\ pc = "export"
    /\ csvFile' = [state |-> "closed", rows |-> acc]
    /\ Exit(0)
    /\ UNCHANGED <<env, reported, raised, pag, jsonFile, srch>>

\* ------------------------------ dbox_search_account.py, dbox_search_list_ids.py
\* dbx._session.headers['Dropbox-API-Select-User'] = dbmid, inside the loop
\* over dbmid_list: the header of the k-th round is the k-th id.
SelectUserHeader_SetOnce(list, k) == list[1]
SelectUserHeader(list, k) == list[k]

\* A new activation of search_files_recursively(folder_path, ..., dbmid),
\* about to call files_search.
Frame(path, dbmid) ==
    [path |-> path, state |-> "call", results |-> <<>>, hdr |-> "", dbmid |-> dbmid]

Top == stack[Len(stack)]
SetTop(f) == [stack EXCEPT ![Len(stack)] = f]
Pop == SubSeq(stack, 1, Len(stack) - 1)

\* Lines 76-84: read the token; exit(1) when the file is missing.
AccountReadToken ==
    /\ script = "account"
    /\ pc = "start"
    /\ IF tokenExists
         THEN /\ pc' = "begin"
              /\ UNCHANGED <<exitStatus, reported>>
         ELSE /\ reported' = TRUE
              /\ Exit(1)
    /\ UNCHANGED <<env, raised, pag, out, srch>>

\* export_files_to_csv, lines 59-70: set the header, open the csv file with
\* mode 'w', write the header row, start the search at the root.
AccountBegin ==
    /\ script = "account"
    /\ pc = "begin"
    /\ header' = dbmid_list[1]
    /\ uidx' = 1
    /\ csvFile' = [state |-> "open", rows |-> <<>>]
    /\ stack' = <<Frame(Root, "")>>
    /\ pc' = "search"
    /\ UNCHANGED <<env, exitStatus, reported, raised, pag, jsonFile, searchLog>>

\* export_files_to_csv, lines 72-73: close the file.
AccountClose ==
    /\ script = "account"
    /\ pc = "close"
    /\ csvFile' = [csvFile EXCEPT !.state = "closed"]
    /\ Exit(0)
    /\ UNCHANGED <<env, reported, raised, pag, jsonFile, srch>>

\* Lines 83-91: read the token; exit(1) when the file is missing.
ListIdsReadToken ==
    /\ script = "list_ids"
    /\ pc = "start"
    /\ IF tokenExists
         THEN /\ pc' = "begin"
              /\ UNCHANGED <<exitStatus, reported>>
         ELSE /\ reported' = TRUE
              /\ Exit(1)
    /\ UNCHANGED <<env, raised, pag, out, srch>>

\* export_files_to_csv, lines 60-70: read the ids (an uncaught
\* FileNotFoundError when the csv of ids is missing), open the output file
\* with mode 'w', write the header row.
ListIdsBegin ==
    /\ script = "list_ids"
    /\ pc = "begin"
    /\ \E readable \in BOOLEAN :
         IF readable
           THEN /\ csvFile' = [state |-> "open", rows |-> <<>>]
                /\ pc' = "next_user"
                /\ UNCHANGED <<exitStatus, raised>>
           ELSE /\ Crash([kind |-> "FileNotFoundError", attempt |-> 0])
                /\ UNCHANGED csvFile
    /\ UNCHANGED <<env, reported, pag, jsonFile, srch>>

\* export_files_to_csv, lines 72-80: the next round of the loop over
\* dbmid_list (set the header, search from the root), or the end of the loop
\* (close the file).
ListIdsNextUser ==
    /\ script = "list_ids"
    /\ pc = "next_user"
    /\ IF uidx < Len(dbmid_list)
         THEN /\ uidx' = uidx + 1
              /\ header' = SelectUserHeader(dbmid_list, uidx + 1)
              /\ stack' = <<Frame(Root, dbmid_list[uidx + 1])>>
              /\ pc' = "search"
              /\ UNCHANGED <<exitStatus, csvFile>>
         ELSE /\ csvFile' = [csvFile EXCEPT !.state = "closed"]
              /\ Exit(0)
              /\ UNCHANGED <<uidx, header, stack>>
    /\ UNCHANGED <<env, reported, raised, pag, jsonFile, searchLog>>

\* search_files_recursively, line 42 (41 in dbox_search_account.py): the
\* files_search request of the newest activation.  An API or network error
\* is caught nowhere.
SearchRequest ==
    /\ script \in SearchScripts
    /\ pc = "search"
    /\ Top.state = "call"
    /\ searchLog' = Append(searchLog, [uidx |-> uidx, hdr |-> header, path |-> Top.path])
    /\ \E ok \in BOOLEAN :
         IF ok
           THEN /\ stack' = SetTop([Top EXCEPT !.state = "loop",
                                               !.results = Matches(Top.path),
                                               !.hdr = header])
                /\ UNCHANGED <<pc, exitStatus, raised>>
           ELSE /\ Crash([kind |-> "ApiError", attempt |-> 0])
                /\ UNCHANGED stack
    /\ UNCHANGED <<env, reported, pag, out, header, uidx>>

\* search_files_recursively, lines 43-46: the next match is a folder, search
\* inside it with the same query.
SearchRecurse ==
    /\ script \in SearchScripts
    /\ pc = "search"
    /\ Top.state = "loop"
    /\ Top.results # <<>>
    /\ kind[Head(Top.results)] = "folder"
    /\ stack' = Append(SetTop([Top EXCEPT !.results = Tail(Top.results)]),
                       Frame(Head(Top.results), Top.dbmid))
    /\ UNCHANGED <<env, ctl, pag, out, header, uidx, searchLog>>

\* search_files_recursively, lines 43-48: the next match is no folder, write
\* its row.
SearchWriteRow ==
    /\ script \in SearchScripts
    /\ pc = "search"
    /\ Top.state = "loop"
    /\ Top.results # <<>>
    /\ kind[Head(Top.results)] # "folder"
    /\ csvFile' = [csvFile EXCEPT !.rows =
                       Append(@, [node |-> Head(Top.results), dbmid |-> Top.dbmid,
                                  hdr |-> Top.hdr, uidx |-> uidx])]
    /\ stack' = SetTop([Top EXCEPT !.results = Tail(Top.results)])
    /\ UNCHANGED <<env, ctl, pag, jsonFile, header, uidx, searchLog>>

\* search_files_recursively: the loop over the matches is over, return to
\* the caller (the activation below, or export_files_to_csv).
SearchReturn ==
    /\ script \in SearchScripts
    /\ pc = "search"
    /\ Top.state = "loop"
    /\ Top.results = <<>>
    /\ stack' = Pop
    /\ pc' = IF Len(stack) > 1 THEN "search"
             ELSE IF script = "account" THEN "close" ELSE "next_user"
    /\ UNCHANGED <<env, exitStatus, reported, raised, pag, out, header, uidx, searchLog>>

Next ==
    \/ ExportReadToken
    \/ ExportAttempt
    \/ ExportFirstResponse
    \/ ExportWhile
    \/ ExportContResponse
    \/ ExportWriteJson
    \/ ExportWriteCsv
    \/ MembersReadToken
    \/ MembersLoop
    \/ MembersExport
    \/ AccountReadToken
    \/ AccountBegin
    \/ AccountClose
    \/ ListIdsReadToken
    \/ ListIdsBegin
    \/ ListIdsNextUser
    \/ SearchRequest
    \/ SearchRecurse
    \/ SearchWriteRow
    \/ SearchReturn

Spec == Init /\ [][Next]_vars

\* ================================================================ claims
Failures == {"netfail", "httperr"}
Successes == {"ok", "badjson"}
Rows == {csvFile.rows[j] : j \in 1..Len(csvFile.rows)}

RECURSIVE ConcatPages(_)
\* the records of pages 1..k, page after page
ConcatPages(k) == IF k = 0 THEN <<>> ELSE ConcatPages(k - 1) \o Records(k)

RECURSIVE ConcatAnswers(_)
\* the records of the pages that answered requests 1..j, in response order
ConcatAnswers(j) == IF j = 0 THEN <<>>
                    ELSE ConcatAnswers(j - 1) \o Records(requests[j].page)

NoDuplicate(s) == \A a, b \in 1..Len(s) : a # b => s[a] # s[b]

\* the pagination loop of a paginated script has ended normally
FetchDone ==
    /\ script \in PagedScripts
    /\ tokenExists
    /\ \/ pc \in {"write_json", "write_csv", "export"}
       \/ pc = "exited" /\ exitStatus = 0

\* the recursive search of a search script, over all users, has ended normally
SearchDone ==
    /\ script \in SearchScripts
    /\ tokenExists
    /\ \/ pc = "close"
       \/ pc = "next_user" /\ uidx = Len(dbmid_list)
       \/ pc = "exited" /\ exitStatus = 0

\* C1: when the pagination loop ends, the accumulated list is the
\* concatenation of the records of the pages received, in response order
\* and with the order inside each page kept; the pages received are all the
\* pages of the backend, each once and in order; no record occurs twice.
C1_Concatenation ==
    FetchDone =>
        /\ acc = ConcatAnswers(Len(requests))
        /\ Len(requests) = Len(pages)
        /\ \A j \in 1..Len(requests) : requests[j].page = j
        /\ acc = ConcatPages(Len(pages))
        /\ NoDuplicate(acc)

C1_Witness ==
    /\ FetchDone
    /\ Len(requests) >= 2
    /\ pages[1].n >= 2
    /\ pages[2].n >= 1

\* C2: when the first page does not say has_more true (false, or no such
\* field), no continuation request is ever issued: the only request is the
\* initial one, the attempts made are those of that one request (failed
\* attempts, then the one that was answered), and the list handed to the
\* exporter, and written by it, is exactly the first page's records.
C2_SinglePage ==
    (script \in PagedScripts /\ pages[1].has_more # "true") =>
        /\ Len(requests) <= 1
        /\ \A j \in 1..Len(requests) : requests[j].cursor = NoCur
        /\ FetchDone =>
              /\ Len(requests) = 1
              /\ requests[1].page = 1
              /\ callLog[Len(callLog)] = "ok"
              /\ \A j \in 1..(Len(callLog) - 1) : callLog[j] \in Failures
              /\ acc = Records(1)
              /\ csvFile.state = "closed" => csvFile.rows = Records(1)
              /\ jsonFile.state = "closed" => jsonFile.rows = Records(1)

C2_Witness ==
    /\ FetchDone
    /\ pc = "exited"
    /\ pages[1].has_more = "absent"
    /\ pages[1].n = 2
    /\ callLog = <<"ok">>
    /\ csvFile.rows = Records(1)

\* C3: make_request returns as soon as an attempt succeeds: when it has
\* returned, the attempts of the call are N failures (N < Retries) followed
\* by the success, the response is the one of attempt N+1, and nothing was
\* raised; no attempt ever follows a success; and the call raises only after
\* Retries attempts.
C3_RetryThenSuccess ==
    script = "export" =>
        /\ \A j \in 1..(Len(callLog) - 1) : callLog[j] \in Failures
        /\ pc \in {"first_response", "cont_response"} =>
              /\ Len(callLog) \in 1..Retries
              /\ callLog[Len(callLog)] \in Successes
              /\ response.attempt = Len(callLog)
              /\ response.json =>
                    response.page = Respond(LastRequest.cursor).page
              /\ raised = NoError
              /\ exitStatus = -1
        /\ raised.kind \in Failures => Len(callLog) >= Retries

C3_Witness ==
    /\ script = "export"
    /\ pc = "cont_response"
    /\ callLog = <<"netfail", "httperr", "ok">>
    /\ response.page = 2

\* C4: when every attempt of a make_request call fails, the call makes
\* exactly Retries attempts and then raises the error of the last one; it
\* returns nothing, the run ends with an error status, and neither output
\* file is written.
C4_ExhaustedRetries ==
    (script = "export" /\ callLog # <<>>
        /\ \A j \in 1..Len(callLog) : callLog[j] \in Failures) =>
        /\ Len(callLog) <= Retries
        /\ Len(callLog) < Retries =>
              /\ pc = "make_request"
              /\ i = Len(callLog)
              /\ raised = NoError
        /\ Len(callLog) = Retries =>
              /\ pc = "exited"
              /\ exitStatus = 1
              /\ raised = [kind |-> callLog[Retries], attempt |-> Retries]
              /\ LastRequest.page = 0
              /\ jsonFile = PrevFile
              /\ csvFile = PrevFile

C4_Witness ==
    /\ script = "export"
    /\ Len(requests) = 2
    /\ Len(acc) >= 1
    /\ callLog = <<"netfail", "netfail", "httperr">>
    /\ raised = [kind |-> "httperr", attempt |-> Retries]

\* C5, as claimed: an HTTP error status ends the request at that attempt (no
\* further attempt, the failure surfaces), and a network failure surfaces
\* only after Retries attempts.
C5_Original ==
    script \in PagedScripts =>
        /\ \A j \in 1..Len(callLog) :
              callLog[j] = "httperr" =>
                  /\ j = Len(callLog)
                  /\ pc = "exited"
                  /\ raised.kind = "httperr"
        /\ raised.kind = "netfail" => Len(callLog) = Retries

\* C5, amended: make_request makes no difference between a network failure
\* and an HTTP error status: either is retried, and either surfaces only as
\* the error of attempt number Retries; get_members retries nothing: its
\* one attempt's failure, of either kind, surfaces at once.
C5_Amended ==
    /\ script = "export" =>
          /\ \A j \in 1..Len(callLog) :
                (callLog[j] \in Failures /\ j < Retries /\ j = Len(callLog)) =>
                    /\ raised = NoError
                    /\ pc = "make_request"
                    /\ i = j
          /\ raised.kind \in Failures =>
                /\ Len(callLog) = Retries
                /\ raised.attempt = Retries
    /\ script = "members" =>
          /\ Len(callLog) <= 1
          /\ (callLog # <<>> /\ callLog[1] # "ok") =>
                /\ pc = "exited"
                /\ exitStatus = 1
                /\ raised = [kind |-> callLog[1], attempt |-> 1]

C5_Witness ==
    /\ script = "export"
    /\ pc = "first_response"
    /\ callLog = <<"httperr", "httperr", "ok">>

\* the number of rows written for node n in the round of user number u
RowCount(n, u) ==
    Cardinality({j \in 1..Len(csvFile.rows) :
                    csvFile.rows[j].node = n /\ csvFile.rows[j].uidx = u})

\* C6, as claimed: no folder is ever written, no file is written twice for
\* one user, and when the search has ended every file that matches the
\* query has been written exactly once for each user.
C6_Original ==
    script \in SearchScripts =>
        /\ \A r \in Rows : kind[r.node] = "file"
        /\ \A n \in Nodes : \A u \in 1..Len(dbmid_list) : RowCount(n, u) <= 1
        /\ SearchDone =>
              \A n \in Nodes : \A u \in 1..Len(dbmid_list) :
                  (kind[n] = "file" /\ match[n]) => RowCount(n, u) = 1

\* C7, as claimed: when the token file is missing, the run ends with the
\* error reported, no request issued, no output file touched, and a
\* non-zero exit status.
C7_Original ==
    (~tokenExists /\ pc = "exited") =>
        /\ reported
        /\ requests = <<>>
        /\ searchLog = <<>>
        /\ jsonFile = PrevFile
        /\ csvFile = PrevFile
        /\ exitStatus > 0

\* the page that answered request j ends the traversal: it does not say
\* has_more true, or it carries no cursor (none, or an empty one)
EndsTraversal(j) ==
    /\ requests[j].page # 0
    /\ \/ pages[requests[j].page].has_more # "true"
       \/ pages[requests[j].page].cursor # "valid"

\* C8, as claimed: after a response that ends the traversal no further
\* request is issued, no error is raised, and the run goes on to the export.
C8_Original ==
    script \in PagedScripts =>
        \A j \in 1..Len(requests) :
            EndsTraversal(j) =>
                /\ j = Len(requests)
                /\ raised = NoError
                /\ exitStatus \in {-1, 0}

\* C9, as claimed: as long as the fetch has not finished successfully, no
\* output file has been opened, truncated or written.
C9_Original ==
    ~(FetchDone \/ SearchDone) =>
        /\ jsonFile = PrevFile
        /\ csvFile = PrevFile

\* C9, amended: in the two paginated scripts no output file is opened or
\* written before the pagination loop has ended normally, so a run that
\* fails while fetching leaves both files as they were.  In the two search
\* scripts the csv file is opened with mode 'w' (truncated) before the first
\* search request and the rows are written while the search runs: a search
\* that fails leaves the file truncated, open, with the rows written so far.
C9_Amended ==
    /\ (script \in PagedScripts /\ ~FetchDone) =>
          /\ jsonFile = PrevFile
          /\ csvFile = PrevFile
    /\ script \in SearchScripts =>
          /\ jsonFile = PrevFile
          /\ searchLog # <<>> => csvFile.state # "previous"
          /\ csvFile.rows # <<>> => csvFile.state # "previous"
          /\ raised.kind = "ApiError" => csvFile.state = "open"

C9_Witness ==
    /\ script = "export"
    /\ pc = "exited"
    /\ raised.kind = "netfail"
    /\ Len(requests) = 2
    /\ Len(acc) >= 1
    /\ jsonFile = PrevFile
    /\ csvFile = PrevFile

Nondecreasing(s) == \A a, b \in 1..Len(s) : a <= b => s[a].uidx <= s[b].uidx

\* C10: in dbox_search_list_ids, every search request is sent with the
\* header equal to the dbmid of the user being processed; every row carries
\* the dbmid that was in the header when the request that returned its file
\* was made; the users are processed in the order of the input list, each
\* search starting at the root; all rows of a user come before any row of
\* the next.
C10_HeaderPerUser ==
    script = "list_ids" =>
        /\ \A j \in 1..Len(searchLog) :
              /\ searchLog[j].uidx \in 1..Len(dbmid_list)
              /\ searchLog[j].hdr = dbmid_list[searchLog[j].uidx]
        /\ \A r \in Rows :
              /\ r.dbmid = r.hdr
              /\ r.dbmid = dbmid_list[r.uidx]
        /\ Nondecreasing(searchLog)
        /\ Nondecreasing(csvFile.rows)
        /\ \A u \in 1..uidx :
              (u = uidx /\ pc = "search" /\ Len(stack) = 1 /\ Top.state = "call")
              \/ \E j \in 1..Len(searchLog) :
                     /\ searchLog[j].uidx = u
                     /\ searchLog[j].path = Root
                     /\ \A k \in 1..(j - 1) : searchLog[k].uidx < u
        /\ header = IF uidx = 0 THEN "" ELSE dbmid_list[uidx]

C10_Witness ==
    /\ script = "list_ids"
    /\ pc = "exited"
    /\ exitStatus = 0
    /\ dbmid_list = <<"u1", "u2">>
    /\ \E a, b \in Rows : a.dbmid = "u1" /\ b.dbmid = "u2"

====
